---- MODULE Spec2Model ----
(***************************************************************************)
(* BloxHub Discord bot: the account-linking handlers (handle_verify,       *)
(* confirm_verification, handle_reverify), the purchase handlers           *)
(* (handle_buy, handle_redeem), the background task check_pending_purchases *)
(* and the Storage rows they read and write.                               *)
(*                                                                         *)
(* Every Storage method is one atomic step (one query or one commit);      *)
(* every call of the Roblox API is one atomic step.  A handler is a        *)
(* sequence of such steps: Flask serves requests on threads, and the       *)
(* background task yields at every await, so the steps of different        *)
(* handlers and of the task interleave.                                    *)
(***************************************************************************)
EXTENDS Integers, Sequences, FiniteSets, Bags, TLC

(* ------------------------------ bounds -------------------------------- *)

\* Number of requests that can be in progress at once.
NumProcs == 2

\* The clock stops advancing at MaxClock (later stamps are all MaxClock).
MaxClock == 2

\* Notifier invocations per purchase are counted up to MaxCount.
MaxCount == 2

(* ------------------------------ domains ------------------------------- *)

\* Discord accounts that send commands.
DiscordIds == {"7001"}

\* Outputs of generate_verification_code: prefix + 4 random characters.
Codes == {"DISC-VFY-7Q2M", "DISC-VFY-0A1B"}

\* The Roblox accounts that exist.
RobloxAccounts == {[id |-> 101, name |-> "Builder"]}

RobloxIds == {ToString(a.id) : a \in RobloxAccounts}

\* Usernames a caller may claim: an existing one and one nobody has.
UsernameClaims == {"Builder", "Ghost"}

\* The product names and gamepass ids in use.
ProductNames == {"Gold"}

GamepassIds == {"9001"}

\* Python's None, for rows and dictionaries.
None == [id |-> 0]

\* Python's None, for a DateTime column.
NoTime == 0

VARIABLES
  verified_users,   \* table verified_users: a set of rows
  products,         \* table products: a set of rows
  purchases,        \* table purchases: a set of rows
  profile,          \* Roblox: the codes in each account's "About Me"
  owns,             \* Roblox: the <<user id, gamepass id>> pairs owned
  now,              \* datetime.datetime.now()
  procs,            \* the requests in progress, a bag: for each the handler,
                    \* its position and its locals
  last,             \* the call that returned in the latest step, if one did
  loop,             \* check_pending_purchases: position and locals
  grants            \* add_roles calls made, per purchase id

vars == <<verified_users, products, purchases, profile, owns, now, procs,
          last, loop, grants>>

(* ------------------------------ helpers ------------------------------- *)

Max(S) == CHOOSE x \in S : \A y \in S : y <= x

\* An Integer primary key: one more than the largest id in the table.
NextId(rows) == IF rows = {} THEN 1 ELSE Max({r.id : r \in rows}) + 1

\* The clock after datetime.now() was read.
Tick == IF now < MaxClock THEN now + 1 ELSE MaxClock

\* `key in data` for a dictionary passed to a Storage method.
Has(data, key) == key \in DOMAIN data

\* A row's dictionary (to_dict) held in a local: of its keys the model
\* keeps those the function reads afterwards.
Keep(row, keys) == IF row = [id |-> 0] THEN row ELSE [k \in keys |-> row[k]]

(* ------------------------- Storage: verified users -------------------- *)

\* Query.first(): the first matching row, or None.  The default engine
\* (SQLite) scans a table by ascending id.
First(rows) ==
  IF rows = {} THEN None ELSE CHOOSE r \in rows : \A q \in rows : r.id <= q.id

get_verified_user_by_discord_id(discord_id) ==
  First({r \in verified_users : r.discordId = discord_id})

NewVerifiedUser(user_data) ==
  [id |-> NextId(verified_users),
   discordId |-> user_data.discordId,
   robloxUsername |-> user_data.robloxUsername,
   robloxId |-> user_data.robloxId,
   verificationCode |-> user_data.verificationCode,
   verified |-> user_data.verified,
   verifiedAt |-> NoTime]

\* create_verified_user without the unique index on discord_id.
create_verified_user_no_unique(user_data) ==
  [raised |-> FALSE,
   rows |-> verified_users \cup {NewVerifiedUser(user_data)}]

\* session.add + commit; discord_id is unique, a second row raises.
create_verified_user(user_data) ==
  IF \E r \in verified_users : r.discordId = user_data.discordId
  THEN [raised |-> TRUE, rows |-> verified_users]
  ELSE [raised |-> FALSE,
        rows |-> verified_users \cup {NewVerifiedUser(user_data)}]

UpdatedVerifiedUser(r, user_data) ==
  [id |-> r.id,
   discordId |-> r.discordId,
   robloxUsername |-> IF Has(user_data, "robloxUsername")
                      THEN user_data.robloxUsername ELSE r.robloxUsername,
   robloxId |-> IF Has(user_data, "robloxId")
                THEN user_data.robloxId ELSE r.robloxId,
   verificationCode |-> IF Has(user_data, "verificationCode")
                        THEN user_data.verificationCode
                        ELSE r.verificationCode,
   verified |-> IF Has(user_data, "verified")
                THEN user_data.verified ELSE r.verified,
   verifiedAt |-> IF Has(user_data, "verifiedAt")
                  THEN user_data.verifiedAt ELSE r.verifiedAt]

\* The table after update_verified_user(id, user_data).
update_verified_user(id, user_data) ==
  {IF r.id = id THEN UpdatedVerifiedUser(r, user_data) ELSE r :
     r \in verified_users}

(* ---------------------- Storage: products, purchases ------------------ *)

get_product(id) == First({r \in products : r.id = id})

get_product_by_name(name) == First({r \in products : r.name = name})

get_product_by_gamepass_id(gamepass_id) ==
  First({r \in products : r.gamepassId = gamepass_id})

\* create_product without the unique constraints of the table.
create_product_no_unique(product_data) ==
  [raised |-> FALSE,
   rows |-> products \cup
     {[id |-> NextId(products), name |-> product_data.name,
       gamepassId |-> product_data.gamepassId]}]

\* Product(...) + commit: name and gamepass_id are unique columns
\* (lines 74 and 77), so the commit raises when either is stored already.
create_product(product_data) ==
  IF \E r \in products :
       r.name = product_data.name \/ r.gamepassId = product_data.gamepassId
  THEN [raised |-> TRUE, rows |-> products]
  ELSE [raised |-> FALSE,
        rows |-> products \cup
          {[id |-> NextId(products), name |-> product_data.name,
            gamepassId |-> product_data.gamepassId]}]

\* session.delete(product) + commit.  The ORM first sets product_id of the
\* product's purchases to NULL; the column is not nullable, so the commit
\* raises and nothing is deleted when a purchase refers to the product.
delete_product(id) ==
  IF \E r \in purchases : r.productId = id
  THEN products
  ELSE {r \in products : r.id # id}

get_purchase_by_discord_id_and_product_id(discord_id, product_id) ==
  First({r \in purchases :
           r.discordId = discord_id /\ r.productId = product_id})

\* Query.all() on the pending purchases.
get_pending_purchases == {r \in purchases : r.status = "pending"}

\* The table after create_purchase(purchase_data): no column but id is
\* unique, and the default engine (SQLite) does not check product_id.
create_purchase(purchase_data) ==
  purchases \cup
    {[id |-> NextId(purchases),
      discordId |-> purchase_data.discordId,
      robloxId |-> purchase_data.robloxId,
      productId |-> purchase_data.productId,
      status |-> IF Has(purchase_data, "status")
                 THEN purchase_data.status ELSE "pending",
      purchasedAt |-> IF Has(purchase_data, "purchasedAt")
                      THEN purchase_data.purchasedAt ELSE NoTime]}

UpdatedPurchase(r, purchase_data) ==
  [id |-> r.id,
   discordId |-> r.discordId,
   robloxId |-> r.robloxId,
   productId |-> r.productId,
   status |-> IF Has(purchase_data, "status")
              THEN purchase_data.status ELSE r.status,
   purchasedAt |-> IF Has(purchase_data, "purchasedAt")
                   THEN purchase_data.purchasedAt ELSE r.purchasedAt]

\* The table after update_purchase(id, purchase_data).
update_purchase(id, purchase_data) ==
  {IF r.id = id THEN UpdatedPurchase(r, purchase_data) ELSE r :
     r \in purchases}

(* ------------------------------ Roblox API ---------------------------- *)

\* get_user_by_username: the exact match; without one the first search
\* result, if any; None when the search is empty or the request fails.
get_user_by_username(username) ==
  IF \E a \in RobloxAccounts : a.name = username
  THEN {a \in RobloxAccounts : a.name = username} \cup {None}
  ELSE RobloxAccounts \cup {None}

\* is_inventory_public: False when private and when the request fails.
is_inventory_public(user_id) == BOOLEAN

\* check_profile_for_code answering True without reading the description.
check_profile_for_code_unread(user_id, code) == {TRUE}

\* check_profile_for_code: code in description; False when the request fails.
check_profile_for_code(user_id, code) ==
  IF code \in profile[ToString(user_id)] THEN {TRUE, FALSE} ELSE {FALSE}

\* What the ownership request can come back with: the ownership endpoint
\* answers 200; it answers 403 (private inventory); it answers another
\* status and the inventory listing is read instead; a request raises.
OwnershipResponses == {"200", "403", "listing", "raised"}

\* user_owns_gamepass taking every answered request for ownership.
OwnsGamepassAnswered(response, user_id, gamepass_id) ==
  response \in {"200", "listing"}

\* user_owns_gamepass taking a private inventory for ownership.
OwnsGamepassOrPrivate(response, user_id, gamepass_id) ==
  \/ response = "403"
  \/ response \in {"200", "listing"} /\ <<user_id, gamepass_id>> \in owns

\* What user_owns_gamepass returns for a response: True only when the
\* response shows the gamepass.
OwnsGamepass(response, user_id, gamepass_id) ==
  /\ response \in {"200", "listing"}
  /\ <<user_id, gamepass_id>> \in owns

\* user_owns_gamepass: the values it can return.
user_owns_gamepass(user_id, gamepass_id) ==
  {OwnsGamepass(response, user_id, gamepass_id) :
     response \in OwnershipResponses}

\* The forms of text given as a gamepass link.
GamepassLink(gamepass_id) == [form |-> "game-pass", id |-> gamepass_id]

GamepassLinks ==
  {GamepassLink(g) : g \in GamepassIds}
    \cup {[form |-> "digits", id |-> g] : g \in GamepassIds}
    \cup {[form |-> "text", id |-> ""]}

\* extract_gamepass_id: the digits of a game-pass or catalog URL, or the
\* text itself when all digits; otherwise None (here "").
extract_gamepass_id(gamepass_url) ==
  IF gamepass_url.form \in {"game-pass", "catalog", "digits"}
  THEN gamepass_url.id
  ELSE ""

\* get_gamepass_info: whether the marketplace answered with the details of
\* the gamepass (None on any other answer or on an exception).
get_gamepass_info(gamepass_id) == {TRUE, FALSE}

(* ------------------------------ requests ------------------------------ *)

\* The part of CommandResult.data a caller acts on: the verification code
\* ('code') or the purchase link ('gamepassLink').
NoData == [form |-> "", id |-> ""]

CodeData(code) == [form |-> "code", id |-> code]

NoResult == [success |-> FALSE, kind |-> "", data |-> NoData]

\* CommandResult(success, message, data): kind names the message.
CommandResult(success, kind, data) ==
  [success |-> success, kind |-> kind, data |-> data]

Idle ==
  [pc |-> "idle", op |-> "", user |-> "", arg |-> "", gamepass_id |-> "",
   verification |-> None, roblox_user |-> None, product |-> None,
   owned |-> FALSE, existing |-> None, result |-> NoResult]

\* A handler called for `user` with argument `arg` (a Roblox username or a
\* product name), before its first statement.
Frame(op, user, arg) ==
  [Idle EXCEPT !.op = op, !.user = user, !.arg = arg]

\* The handler has returned this result.
Returned(frame, result) ==
  [Idle EXCEPT !.op = frame.op, !.user = frame.user, !.result = result]

\* A request in progress, as a bag of one; a returned one is in no bag.
InProgress(frame) ==
  IF frame.pc = "idle" THEN EmptyBag ELSE SetToBag({frame})

\* A request arrives and runs up to `next`: it stands before its next call,
\* or it has returned already, and then `last` shows the call and its
\* result until the next step.
Begin(next) ==
  /\ BagCardinality(procs) < NumProcs
  /\ procs' = procs (+) InProgress(next)
  /\ last' = IF next.pc = "idle" THEN next ELSE Idle

\* The request `frame` goes on as `next`.
Step(frame, next) ==
  /\ procs' = (procs (-) SetToBag({frame})) (+) InProgress(next)
  /\ last' = IF next.pc = "idle" THEN next ELSE Idle

\* The handler stands before its next call, with these locals assigned.
At(frame, pc, local) ==
  [q \in DOMAIN frame |->
     IF q = "pc" THEN pc
     ELSE IF q \in DOMAIN local THEN local[q] ELSE frame[q]]

\* A handler without its except clause: the exception leaves the handler
\* and the caller is given no result.
FaultEscapes(frame) == Returned(frame, NoResult)

\* except Exception: the handler's generic failure result.
Failed(frame) == Returned(frame, CommandResult(FALSE, "InternalError", NoData))

(* ------------------------------ handle_verify ------------------------- *)

\* handle_verify's condition with the test of 'verified' dropped.
already_verified_never(existing_verification) == FALSE

\* existing_verification and existing_verification.get('verified')
already_verified(existing_verification) ==
  existing_verification # None /\ existing_verification.verified

\* Lines 437-443: refuse when the record read is verified.
VerifyGet(frame, existing_verification) ==
  IF already_verified(existing_verification)
  THEN Returned(frame, CommandResult(FALSE, "AlreadyLinked", NoData))
  ELSE At(frame, "verify_write",
          [verification |-> Keep(existing_verification, {"id"})])

\* Lines 446-472: update the record read, or create one.
VerifyWrite(frame, verification_code) ==
  IF frame.verification # None
  THEN [rows |-> update_verified_user(frame.verification.id,
                   [verificationCode |-> verification_code,
                    verified |-> FALSE, verifiedAt |-> NoTime]),
        proc |-> Returned(frame,
                   CommandResult(TRUE, "CodeIssued",
                                 CodeData(verification_code)))]
  ELSE LET made == create_verified_user(
                     [discordId |-> frame.user, robloxUsername |-> "",
                      robloxId |-> "",
                      verificationCode |-> verification_code,
                      verified |-> FALSE])
       IN [rows |-> made.rows,
           proc |-> IF made.raised THEN Failed(frame)
                    ELSE Returned(frame,
                           CommandResult(TRUE, "CodeIssued",
                                         CodeData(verification_code)))]

handle_verify_get(u) ==
  /\ LET existing == get_verified_user_by_discord_id(u) IN
       Begin(VerifyGet(Frame("verify", u, ""), existing))
  /\ UNCHANGED <<verified_users, products, purchases, profile, owns, now,
                 loop, grants>>

handle_verify_write(f) ==
  /\ f.pc = "verify_write"
  /\ \E verification_code \in Codes :
       LET done == VerifyWrite(f, verification_code) IN
       /\ verified_users' = done.rows
       /\ Step(f, done.proc)
  /\ UNCHANGED <<products, purchases, profile, owns, now, loop, grants>>

(* --------------------------- confirm_verification --------------------- *)

\* Lines 486-492.
confirm_verification_get(u, roblox_username) ==
  /\ LET verification == get_verified_user_by_discord_id(u)
           frame == Frame("confirm", u, roblox_username) IN
       Begin(IF verification = None
         THEN Returned(frame, CommandResult(FALSE, "NotStarted", NoData))
         ELSE At(frame, "confirm_user", [verification |->
                   Keep(verification, {"id", "verificationCode"})]))
  /\ UNCHANGED <<verified_users, products, purchases, profile, owns, now,
                 loop, grants>>

\* Lines 495-501.
confirm_verification_user(f) ==
  /\ f.pc = "confirm_user"
  /\ \E roblox_user \in get_user_by_username(f.arg) :
       Step(f, IF roblox_user = None
         THEN Returned(f,
                CommandResult(FALSE, "ExternalAccountNotFound", NoData))
         ELSE At(f, "confirm_inventory",
                 [roblox_user |-> roblox_user, arg |-> ""]))
  /\ UNCHANGED <<verified_users, products, purchases, profile, owns, now,
                 loop, grants>>

\* Lines 504-510.
confirm_verification_inventory(f) ==
  /\ f.pc = "confirm_inventory"
  /\ \E inventory_is_public \in is_inventory_public(f.roblox_user.id) :
       Step(f, IF ~inventory_is_public
         THEN Returned(f, CommandResult(FALSE, "InventoryPrivate", NoData))
         ELSE At(f, "confirm_code", << >>))
  /\ UNCHANGED <<verified_users, products, purchases, profile, owns, now,
                 loop, grants>>

\* confirm_verification's code check, but a code not found is withdrawn:
\* the record's code is replaced.
confirm_verification_code_withdrawing(f) ==
  /\ f.pc = "confirm_code"
  /\ \E code_found \in check_profile_for_code(f.roblox_user.id,
                          f.verification.verificationCode) :
       /\ Step(f, IF ~code_found
            THEN Returned(f, CommandResult(FALSE, "CodeNotFound", NoData))
            ELSE At(f, "confirm_write", << >>))
       /\ verified_users' =
            IF code_found THEN verified_users
            ELSE update_verified_user(f.verification.id,
                   [verificationCode |-> "withdrawn"])
  /\ UNCHANGED <<products, purchases, profile, owns, now, loop, grants>>

\* Lines 513-519.
confirm_verification_code(f) ==
  /\ f.pc = "confirm_code"
  /\ \E code_found \in check_profile_for_code(f.roblox_user.id,
                          f.verification.verificationCode) :
       Step(f, IF ~code_found
         THEN Returned(f, CommandResult(FALSE, "CodeNotFound", NoData))
         ELSE At(f, "confirm_write", << >>))
  /\ UNCHANGED <<verified_users, products, purchases, profile, owns, now,
                 loop, grants>>

\* Lines 522-539.
confirm_verification_write(f) ==
  /\ f.pc = "confirm_write"
  /\ verified_users' = update_verified_user(f.verification.id,
       [robloxUsername |-> f.roblox_user.name,
        robloxId |-> ToString(f.roblox_user.id),
        verified |-> TRUE,
        verifiedAt |-> now])
  /\ now' = Tick
  /\ Step(f, Returned(f, CommandResult(TRUE, "Linked", NoData)))
  /\ UNCHANGED <<products, purchases, profile, owns, loop, grants>>

(* ------------------------------ handle_reverify ----------------------- *)

\* Lines 552-558: without a record, handle_verify(user) is called.
handle_reverify_get(u) ==
  /\ LET verification == get_verified_user_by_discord_id(u)
           frame == Frame("reverify", u, "") IN
       Begin(IF verification = None
         THEN At(frame, "verify_get", << >>)
         ELSE At(frame, "reverify_write",
                 [verification |-> Keep(verification, {"id"})]))
  /\ UNCHANGED <<verified_users, products, purchases, profile, owns, now,
                 loop, grants>>

\* Line 555: handle_verify's first statement, called from handle_reverify.
handle_reverify_verify(f) ==
  /\ f.pc = "verify_get"
  /\ LET existing == get_verified_user_by_discord_id(f.user) IN
       Step(f, VerifyGet(f, existing))
  /\ UNCHANGED <<verified_users, products, purchases, profile, owns, now,
                 loop, grants>>

\* handle_reverify's update without the keys robloxUsername and robloxId.
handle_reverify_write_keeping(f) ==
  /\ f.pc = "reverify_write"
  /\ \E verification_code \in Codes :
       /\ verified_users' = update_verified_user(f.verification.id,
            [verificationCode |-> verification_code, verified |-> FALSE,
             verifiedAt |-> NoTime])
       /\ Step(f, Returned(f,
                     CommandResult(TRUE, "CodeIssued",
                                   CodeData(verification_code))))
  /\ UNCHANGED <<products, purchases, profile, owns, now, loop, grants>>

\* handle_reverify's update, taking the Roblox id out of the user's
\* purchases as well.
handle_reverify_write_unlinking(f) ==
  /\ f.pc = "reverify_write"
  /\ \E verification_code \in Codes :
       /\ verified_users' = update_verified_user(f.verification.id,
            [verificationCode |-> verification_code, verified |-> FALSE,
             verifiedAt |-> NoTime, robloxUsername |-> "",
             robloxId |-> ""])
       /\ Step(f, Returned(f,
                     CommandResult(TRUE, "CodeIssued",
                                   CodeData(verification_code))))
  /\ purchases' = {IF r.discordId = f.user
                     THEN [r EXCEPT !.robloxId = ""] ELSE r : r \in purchases}
  /\ UNCHANGED <<products, profile, owns, now, loop, grants>>

\* Lines 558-576.
handle_reverify_write(f) ==
  /\ f.pc = "reverify_write"
  /\ \E verification_code \in Codes :
       /\ verified_users' = update_verified_user(f.verification.id,
            [verificationCode |-> verification_code, verified |-> FALSE,
             verifiedAt |-> NoTime, robloxUsername |-> "",
             robloxId |-> ""])
       /\ Step(f, Returned(f,
                     CommandResult(TRUE, "CodeIssued",
                                   CodeData(verification_code))))
  /\ UNCHANGED <<products, purchases, profile, owns, now, loop, grants>>

(* ------------------------------ handle_buy ---------------------------- *)

\* Lines 590-596.
handle_buy_get(u, product_name) ==
  /\ LET verification == get_verified_user_by_discord_id(u)
           frame == Frame("buy", u, product_name) IN
       Begin(IF verification = None \/ ~verification.verified
         THEN Returned(frame, CommandResult(FALSE, "NotLinked", NoData))
         ELSE At(frame, "buy_product",
                 [verification |-> Keep(verification, {"robloxId"})]))
  /\ UNCHANGED <<verified_users, products, purchases, profile, owns, now,
                 loop, grants>>

\* Lines 599-605.
handle_buy_product(f) ==
  /\ f.pc = "buy_product"
  /\ LET product == get_product_by_name(f.arg) IN
       Step(f, IF product = None
         THEN Returned(f,
                CommandResult(FALSE, "UnknownEntitlement", NoData))
         ELSE At(f, "buy_owned",
                 [product |-> Keep(product, {"id", "gamepassId"}),
                  arg |-> ""]))
  /\ UNCHANGED <<verified_users, products, purchases, profile, owns, now,
                 loop, grants>>

\* Line 608.
handle_buy_owned(f) ==
  /\ f.pc = "buy_owned"
  /\ \E owned \in user_owns_gamepass(f.verification.robloxId,
                                      f.product.gamepassId) :
       Step(f, At(f, "buy_existing", [owned |-> owned]))
  /\ UNCHANGED <<verified_users, products, purchases, profile, owns, now,
                 loop, grants>>

\* handle_buy returning its message without the link.
PurchaseLinkOmitted(frame) ==
  Returned(frame, CommandResult(TRUE, "PurchaseLink", NoData))

\* What handle_buy returns with the purchase link (lines 665-675).
PurchaseLink(frame) ==
  Returned(frame, CommandResult(TRUE, "PurchaseLink",
                                GamepassLink(frame.product.gamepassId)))

\* Lines 612-620 and 648-657: read the purchase; a completed one ends the
\* call (owned: 'You already own this product'; not owned: the link).
BuyExisting(frame, existing_purchase) ==
  IF existing_purchase # None /\ existing_purchase.status = "completed"
  THEN IF frame.owned
       THEN Returned(frame, CommandResult(TRUE, "AlreadyOwned", NoData))
       ELSE PurchaseLink(frame)
  ELSE At(frame, "buy_write", [existing |-> Keep(existing_purchase, {"id"})])

handle_buy_existing(f) ==
  /\ f.pc = "buy_existing"
  /\ LET existing_purchase == get_purchase_by_discord_id_and_product_id(
                                f.user, f.product.id) IN
       Step(f, BuyExisting(f, existing_purchase))
  /\ UNCHANGED <<verified_users, products, purchases, profile, owns, now,
                 loop, grants>>

\* handle_buy creating a purchase on every call that is not owned.
BuyWriteAlwaysCreates(frame) ==
  IF frame.owned /\ frame.existing # None
  THEN update_purchase(frame.existing.id,
         [status |-> "completed", purchasedAt |-> now])
  ELSE create_purchase(
         IF frame.owned
         THEN [discordId |-> frame.user,
               robloxId |-> frame.verification.robloxId,
               productId |-> frame.product.id,
               status |-> "completed", purchasedAt |-> now]
         ELSE [discordId |-> frame.user,
               robloxId |-> frame.verification.robloxId,
               productId |-> frame.product.id,
               status |-> "pending"])

\* handle_buy storing every new purchase as pending, owned or not.
BuyWriteAlwaysPending(frame) ==
  IF frame.existing # None
  THEN update_purchase(frame.existing.id,
         IF frame.owned
         THEN [status |-> "completed", purchasedAt |-> now]
         ELSE [status |-> "pending"])
  ELSE create_purchase(
         [discordId |-> frame.user,
          robloxId |-> frame.verification.robloxId,
          productId |-> frame.product.id,
          status |-> "pending"])

\* Lines 621-638 (owned) and 650-662 (not owned): the table afterwards.
BuyWrite(frame) ==
  IF frame.owned
  THEN IF frame.existing # None
       THEN update_purchase(frame.existing.id,
              [status |-> "completed", purchasedAt |-> now])
       ELSE create_purchase(
              [discordId |-> frame.user,
               robloxId |-> frame.verification.robloxId,
               productId |-> frame.product.id,
               status |-> "completed", purchasedAt |-> now])
  ELSE IF frame.existing = None
       THEN create_purchase(
              [discordId |-> frame.user,
               robloxId |-> frame.verification.robloxId,
               productId |-> frame.product.id,
               status |-> "pending"])
       ELSE update_purchase(frame.existing.id, [status |-> "pending"])

handle_buy_write(f) ==
  /\ f.pc = "buy_write"
  /\ purchases' = BuyWrite(f)
  /\ now' = IF f.owned THEN Tick ELSE now
  /\ Step(f, IF f.owned
             THEN Returned(f,
                           CommandResult(TRUE, "Processed", NoData))
             ELSE PurchaseLink(f))
  /\ UNCHANGED <<verified_users, products, profile, owns, loop, grants>>

(* ------------------------------ handle_redeem ------------------------- *)

\* Lines 689-704.
handle_redeem_get(u, product_name, gamepass_link) ==
  /\ LET verification == get_verified_user_by_discord_id(u)
           frame == Frame("redeem", u, product_name)
           gamepass_id == extract_gamepass_id(gamepass_link)
       IN
       Begin(IF verification = None \/ ~verification.verified
         THEN Returned(frame, CommandResult(FALSE, "NotLinked", NoData))
         ELSE IF gamepass_id = ""
         THEN Returned(frame, CommandResult(FALSE, "InvalidLink", NoData))
         ELSE At(frame, "redeem_product",
                 [verification |-> Keep(verification, {"robloxId"}),
                  gamepass_id |-> gamepass_id]))
  /\ UNCHANGED <<verified_users, products, purchases, profile, owns, now,
                 loop, grants>>

\* Lines 707-732: the product by name, checked against the gamepass, or
\* without a name the product of the gamepass.
RedeemProduct(frame, product) ==
  IF product = None
  THEN Returned(frame, CommandResult(FALSE,
         IF frame.arg # "" THEN "UnknownEntitlement" ELSE "NoProduct",
         NoData))
  ELSE IF frame.arg # "" /\ product.gamepassId # frame.gamepass_id
  THEN Returned(frame, CommandResult(FALSE, "EntitlementMismatch", NoData))
  ELSE At(frame, "redeem_owned",
          [product |-> Keep(product, {"id"}), arg |-> ""])

handle_redeem_product(f) ==
  /\ f.pc = "redeem_product"
  /\ LET product == IF f.arg # ""
                    THEN get_product_by_name(f.arg)
                    ELSE get_product_by_gamepass_id(f.gamepass_id) IN
       Step(f, RedeemProduct(f, product))
  /\ UNCHANGED <<verified_users, products, purchases, profile, owns, now,
                 loop, grants>>

\* Lines 735-741.
handle_redeem_owned(f) ==
  /\ f.pc = "redeem_owned"
  /\ \E owned \in user_owns_gamepass(f.verification.robloxId,
                                      f.gamepass_id) :
       Step(f, IF ~owned
         THEN Returned(f, CommandResult(FALSE, "NotOwned", NoData))
         ELSE At(f, "redeem_existing", [gamepass_id |-> ""]))
  /\ UNCHANGED <<verified_users, products, purchases, profile, owns, now,
                 loop, grants>>

\* handle_redeem without the test for a completed purchase.
RedeemExistingUntested(frame, existing_purchase) ==
  At(frame, "redeem_write", [existing |-> Keep(existing_purchase, {"id"})])

\* Lines 744-751.
RedeemExisting(frame, existing_purchase) ==
  IF existing_purchase # None /\ existing_purchase.status = "completed"
  THEN Returned(frame, CommandResult(TRUE, "AlreadyRedeemed", NoData))
  ELSE At(frame, "redeem_write",
          [existing |-> Keep(existing_purchase, {"id"})])

handle_redeem_existing(f) ==
  /\ f.pc = "redeem_existing"
  /\ LET existing_purchase == get_purchase_by_discord_id_and_product_id(
                                f.user, f.product.id) IN
       Step(f, RedeemExisting(f, existing_purchase))
  /\ UNCHANGED <<verified_users, products, purchases, profile, owns, now,
                 loop, grants>>

\* Lines 754-769: the table afterwards.
RedeemWrite(frame) ==
  IF frame.existing # None
  THEN update_purchase(frame.existing.id,
         [status |-> "completed", purchasedAt |-> now])
  ELSE create_purchase(
         [discordId |-> frame.user,
          robloxId |-> frame.verification.robloxId,
          productId |-> frame.product.id,
          status |-> "completed", purchasedAt |-> now])

handle_redeem_write(f) ==
  /\ f.pc = "redeem_write"
  /\ purchases' = RedeemWrite(f)
  /\ now' = Tick
  /\ Step(f, Returned(f, CommandResult(TRUE, "Redeemed", NoData)))
  /\ UNCHANGED <<verified_users, products, profile, owns, loop, grants>>

(* ---------------------------- handle_add_product ---------------------- *)

\* Lines 796-811: the link, then the product of that name.
AddExisting(frame, gamepass_id) ==
  IF gamepass_id = ""
  THEN Returned(frame, CommandResult(FALSE, "InvalidLink", NoData))
  ELSE IF get_product_by_name(frame.arg) # None
  THEN Returned(frame, CommandResult(FALSE, "DuplicateName", NoData))
  ELSE At(frame, "add_gamepass", [gamepass_id |-> gamepass_id])

handle_add_product_get(u, product_name, gamepass_link) ==
  /\ Begin(AddExisting(Frame("add", u, product_name),
                       extract_gamepass_id(gamepass_link)))
  /\ UNCHANGED <<verified_users, products, purchases, profile, owns, now,
                 loop, grants>>

\* Lines 814-820.
handle_add_product_gamepass(f) ==
  /\ f.pc = "add_gamepass"
  /\ Step(f, IF get_product_by_gamepass_id(f.gamepass_id) # None
             THEN Returned(f, CommandResult(FALSE, "DuplicateAsset", NoData))
             ELSE At(f, "add_info", << >>))
  /\ UNCHANGED <<verified_users, products, purchases, profile, owns, now,
                 loop, grants>>

\* Lines 823-829.
handle_add_product_info(f) ==
  /\ f.pc = "add_info"
  /\ \E gamepass_info \in get_gamepass_info(f.gamepass_id) :
       Step(f, IF ~gamepass_info
               THEN Returned(f,
                      CommandResult(FALSE, "AssetNotFound", NoData))
               ELSE At(f, "add_create", << >>))
  /\ UNCHANGED <<verified_users, products, purchases, profile, owns, now,
                 loop, grants>>

\* Lines 832-846 and the except clause.
handle_add_product_create(f) ==
  /\ f.pc = "add_create"
  /\ LET created == create_product(
                      [name |-> f.arg, gamepassId |-> f.gamepass_id]) IN
       /\ products' = created.rows
       /\ Step(f, IF created.raised
                  THEN Failed(f)
                  ELSE Returned(f, CommandResult(TRUE, "Added", NoData)))
  /\ UNCHANGED <<verified_users, purchases, profile, owns, now, loop, grants>>

(* ------------------------ check_pending_purchases --------------------- *)

LoopIdle == [pc |-> "idle", pending |-> << >>, product |-> None]

\* Query.all(): the rows by ascending id, as a list.
All(rows) ==
  CHOOSE f \in [1 .. Cardinality(rows) -> rows] :
    \A i, j \in 1 .. Cardinality(rows) : i < j => f[i].id < f[j].id

\* The purchase the task is at.
Current == Head(loop.pending)

\* The for loop left after its first purchase.
NextPurchaseBreak == LoopIdle

\* continue, or the end of the for loop: the task goes to the next
\* purchase of its list, or the tick is over.
NextPurchase ==
  IF Len(loop.pending) > 1
  THEN [pc |-> "product", pending |-> Tail(loop.pending), product |-> None]
  ELSE LoopIdle

\* Lines 365-370: a tick that finds pending purchases.
check_pending_purchases_get ==
  /\ loop.pc = "idle"
  /\ get_pending_purchases # {}
  /\ LET pending_purchases == All(get_pending_purchases) IN
       loop' = [pc |-> "product",
                pending |-> [i \in DOMAIN pending_purchases |->
                   Keep(pending_purchases[i],
                        {"id", "discordId", "robloxId", "productId"})],
                product |-> None]
  /\ last' = Idle
  /\ UNCHANGED <<verified_users, products, purchases, profile, owns, now,
                 procs, grants>>

\* Lines 373-374.
check_pending_purchases_product ==
  /\ loop.pc = "product"
  /\ LET product == get_product(Current.productId) IN
       loop' = IF product = None
               THEN [loop EXCEPT !.pc = "failed"]
               ELSE [loop EXCEPT !.pc = "owned",
                       !.product = Keep(product, {"gamepassId"})]
  /\ last' = Idle
  /\ UNCHANGED <<verified_users, products, purchases, profile, owns, now,
                 procs, grants>>

\* Lines 376-377.
check_pending_purchases_failed ==
  /\ loop.pc = "failed"
  /\ purchases' = update_purchase(Current.id, [status |-> "failed"])
  /\ loop' = NextPurchase
  /\ last' = Idle
  /\ UNCHANGED <<verified_users, products, profile, owns, now, procs, grants>>

\* The task giving a purchase up when its gamepass is not owned.
check_pending_purchases_owned_once ==
  /\ loop.pc = "owned"
  /\ \E owned \in user_owns_gamepass(Current.robloxId,
                                      loop.product.gamepassId) :
       loop' = [loop EXCEPT !.pc = IF owned THEN "completed" ELSE "failed"]
  /\ last' = Idle
  /\ UNCHANGED <<verified_users, products, purchases, profile, owns, now,
                 procs, grants>>

\* Lines 380-382.
check_pending_purchases_owned ==
  /\ loop.pc = "owned"
  /\ \E owned \in user_owns_gamepass(Current.robloxId,
                                      loop.product.gamepassId) :
       loop' = IF owned
               THEN [loop EXCEPT !.pc = "completed"]
               ELSE NextPurchase
  /\ last' = Idle
  /\ UNCHANGED <<verified_users, products, purchases, profile, owns, now,
                 procs, grants>>

\* Lines 384-392.
check_pending_purchases_completed ==
  /\ loop.pc = "completed"
  /\ purchases' = update_purchase(Current.id,
       [status |-> "completed", purchasedAt |-> now])
  /\ now' = Tick
  /\ loop' = [loop EXCEPT !.pc = "role"]
  /\ last' = Idle
  /\ UNCHANGED <<verified_users, products, profile, owns, procs, grants>>

\* The number of times the role was given for a purchase.
Granted(id) == IF id \in DOMAIN grants THEN grants[id] ELSE 0

\* The role block without its try: a failure ends the tick and the
\* completion is taken back.
check_pending_purchases_role_raising ==
  /\ loop.pc = "role"
  /\ purchases' = update_purchase(Current.id, [status |-> "pending"])
  /\ loop' = LoopIdle
  /\ last' = Idle
  /\ UNCHANGED <<verified_users, products, profile, owns, now, procs, grants>>

\* Lines 395-426: the Bot Buyer role is given (or the attempt is logged).
check_pending_purchases_role ==
  /\ loop.pc = "role"
  /\ grants' = [id \in DOMAIN grants \cup {Current.id} |->
                  IF id # Current.id THEN grants[id]
                  ELSE IF Granted(id) < MaxCount THEN Granted(id) + 1
                  ELSE MaxCount]
  /\ loop' = NextPurchase
  /\ last' = Idle
  /\ UNCHANGED <<verified_users, products, purchases, profile, owns, now,
                 procs>>

(* ------------------------------ environment --------------------------- *)

\* The owner of a Roblox account edits the profile's "About Me".
EditProfile(roblox_id, codes) ==
  /\ profile[roblox_id] # codes
  /\ profile' = [profile EXCEPT ![roblox_id] = codes]
  /\ last' = Idle
  /\ UNCHANGED <<verified_users, products, purchases, owns, now, procs,
                 loop, grants>>

\* The owner of a Roblox account buys a gamepass on Roblox.
BuyGamepass(roblox_id, gamepass_id) ==
  /\ <<roblox_id, gamepass_id>> \notin owns
  /\ owns' = owns \cup {<<roblox_id, gamepass_id>>}
  /\ last' = Idle
  /\ UNCHANGED <<verified_users, products, purchases, profile, now, procs,
                 loop, grants>>

\* An administrator deletes a product (Storage.delete_product).
DeleteProduct(id) ==
  /\ delete_product(id) # products
  /\ products' = delete_product(id)
  /\ last' = Idle
  /\ UNCHANGED <<verified_users, purchases, profile, owns, now, procs, loop, grants>>

(* ------------------------------ link registry ------------------------- *)

\* An empty database, no request in progress.
Init ==
  /\ verified_users = {}
  /\ products = {}
  /\ purchases = {}
  /\ profile = [r \in RobloxIds |-> {}]
  /\ owns = {}
  /\ now = 1
  /\ procs = EmptyBag
  /\ last = Idle
  /\ loop = LoopIdle
  /\ grants = << >>

\* The requests in progress.
Running == BagToSet(procs)

NextLink ==
  \/ \E u \in DiscordIds : handle_verify_get(u)
  \/ \E f \in Running : handle_verify_write(f)
  \/ \E u \in DiscordIds, n \in UsernameClaims :
       confirm_verification_get(u, n)
  \/ \E f \in Running : confirm_verification_user(f)
  \/ \E f \in Running : confirm_verification_inventory(f)
  \/ \E f \in Running : confirm_verification_code(f)
  \/ \E f \in Running : confirm_verification_write(f)
  \/ \E u \in DiscordIds : handle_reverify_get(u)
  \/ \E f \in Running : handle_reverify_verify(f)
  \/ \E f \in Running : handle_reverify_write(f)
  \/ \E r \in RobloxIds, codes \in SUBSET Codes : EditProfile(r, codes)

\* The link registry alone: the three link commands and profile edits.
SpecLink == Init /\ [][NextLink]_vars

(* ------------------------------ purchases ----------------------------- *)

\* The products offered: Gold, for gamepass 9001.
Catalog == {[id |-> 1, name |-> "Gold", gamepassId |-> "9001"]}

\* A database in which account 7001 is linked to Builder and the catalog
\* is stored; no purchase yet.
InitStore ==
  /\ verified_users =
       {[id |-> 1, discordId |-> "7001", robloxUsername |-> "Builder",
         robloxId |-> "101", verificationCode |-> "DISC-VFY-7Q2M",
         verified |-> TRUE, verifiedAt |-> 1]}
  /\ products = Catalog
  /\ purchases = {}
  /\ profile = [r \in RobloxIds |-> {"DISC-VFY-7Q2M"}]
  /\ owns = {}
  /\ now = 1
  /\ procs = EmptyBag
  /\ last = Idle
  /\ loop = LoopIdle
  /\ grants = << >>

NextStore ==
  \/ \E u \in DiscordIds, n \in ProductNames : handle_buy_get(u, n)
  \/ \E f \in Running : handle_buy_product(f)
  \/ \E f \in Running : handle_buy_owned(f)
  \/ \E f \in Running : handle_buy_existing(f)
  \/ \E f \in Running : handle_buy_write(f)
  \/ \E u \in DiscordIds, n \in ProductNames \cup {""},
        l \in GamepassLinks : handle_redeem_get(u, n, l)
  \/ \E f \in Running : handle_redeem_product(f)
  \/ \E f \in Running : handle_redeem_owned(f)
  \/ \E f \in Running : handle_redeem_existing(f)
  \/ \E f \in Running : handle_redeem_write(f)
  \/ check_pending_purchases_get
  \/ check_pending_purchases_product
  \/ check_pending_purchases_failed
  \/ check_pending_purchases_owned
  \/ check_pending_purchases_completed
  \/ check_pending_purchases_role
  \/ \E r \in RobloxIds, g \in GamepassIds : BuyGamepass(r, g)
  \/ \E r \in products : DeleteProduct(r.id)

\* The purchase commands, the background task, purchases made on Roblox
\* and product deletion, for a linked account.
SpecStore == InitStore /\ [][NextStore]_vars

(* ----------------------- purchases and /reverify ---------------------- *)

NextStoreLink ==
  \/ \E u \in DiscordIds, n \in ProductNames : handle_buy_get(u, n)
  \/ \E f \in Running : handle_buy_product(f)
  \/ \E f \in Running : handle_buy_owned(f)
  \/ \E f \in Running : handle_buy_existing(f)
  \/ \E f \in Running : handle_buy_write(f)
  \/ \E u \in DiscordIds, n \in ProductNames \cup {""},
        l \in GamepassLinks : handle_redeem_get(u, n, l)
  \/ \E f \in Running : handle_redeem_product(f)
  \/ \E f \in Running : handle_redeem_owned(f)
  \/ \E f \in Running : handle_redeem_existing(f)
  \/ \E f \in Running : handle_redeem_write(f)
  \/ \E u \in DiscordIds : handle_reverify_get(u)
  \/ \E f \in Running : handle_reverify_write(f)
  \/ \E r \in RobloxIds, g \in GamepassIds : BuyGamepass(r, g)

\* The purchase commands of a linked account with /reverify alongside:
\* the account can leave the linked state while a purchase command runs.
SpecStoreLink == InitStore /\ [][NextStoreLink]_vars

(* ------------------------------ products ------------------------------ *)

\* The names and gamepasses products are added with, and the links given.
AddedNames == {"Gold", "Silver"}

AddedGamepassIds == {"9001", "9002"}

AddedLinks ==
  {GamepassLink(g) : g \in AddedGamepassIds} \cup {[form |-> "text", id |-> ""]}

NextProduct ==
  \/ \E u \in DiscordIds, n \in AddedNames, l \in AddedLinks :
       handle_add_product_get(u, n, l)
  \/ \E f \in Running : handle_add_product_gamepass(f)
  \/ \E f \in Running : handle_add_product_info(f)
  \/ \E f \in Running : handle_add_product_create(f)

\* /add requests, one after the other or interleaved.
SpecProduct == Init /\ [][NextProduct]_vars

(* ------------------------- requests of an owner ---------------------- *)

\* As InitStore, and Builder has bought gamepass 9001 on Roblox already:
\* user_owns_gamepass answers False only when its request fails.
InitOwned ==
  /\ verified_users =
       {[id |-> 1, discordId |-> "7001", robloxUsername |-> "Builder",
         robloxId |-> "101", verificationCode |-> "DISC-VFY-7Q2M",
         verified |-> TRUE, verifiedAt |-> 1]}
  /\ products = Catalog
  /\ purchases = {}
  /\ profile = [r \in RobloxIds |-> {"DISC-VFY-7Q2M"}]
  /\ owns = {<<"101", "9001">>}
  /\ now = 1
  /\ procs = EmptyBag
  /\ last = Idle
  /\ loop = LoopIdle
  /\ grants = << >>

NextRequest ==
  \/ \E u \in DiscordIds, n \in ProductNames : handle_buy_get(u, n)
  \/ \E f \in Running : handle_buy_product(f)
  \/ \E f \in Running : handle_buy_owned(f)
  \/ \E f \in Running : handle_buy_existing(f)
  \/ \E f \in Running : handle_buy_write(f)
  \/ \E u \in DiscordIds, n \in ProductNames \cup {""},
        l \in GamepassLinks : handle_redeem_get(u, n, l)
  \/ \E f \in Running : handle_redeem_product(f)
  \/ \E f \in Running : handle_redeem_owned(f)
  \/ \E f \in Running : handle_redeem_existing(f)
  \/ \E f \in Running : handle_redeem_write(f)

\* /buy and /redeem of a linked account that owns the gamepass.
SpecOwned == InitOwned /\ [][NextRequest]_vars

(* ------------------------------ faults -------------------------------- *)

\* The commands that have a handler.
Commands == {"verify", "confirm", "reverify", "buy", "redeem", "add"}

\* The first Storage call of a handler raises (the database is away, the
\* session is broken): the try block is left for the except clause.
FaultAtFirstCall(op, u) ==
  /\ Begin(Failed(Frame(op, u, "")))
  /\ UNCHANGED <<verified_users, products, purchases, profile, owns, now,
                 loop, grants>>

\* A later Storage call of a handler, or a statement between two calls,
\* raises: nothing is committed and the except clause returns.
FaultAtCall(f) ==
  /\ Step(f, Failed(f))
  /\ UNCHANGED <<verified_users, products, purchases, profile, owns, now,
                 loop, grants>>

\* Either no user has used the bot, or account 7001 is linked and owns the
\* gamepass of Gold.
InitFault == Init \/ InitOwned

NextFault ==
  \/ \E u \in DiscordIds : handle_verify_get(u)
  \/ \E f \in Running : handle_verify_write(f)
  \/ \E u \in DiscordIds, n \in UsernameClaims :
       confirm_verification_get(u, n)
  \/ \E f \in Running : confirm_verification_user(f)
  \/ \E f \in Running : confirm_verification_inventory(f)
  \/ \E f \in Running : confirm_verification_code(f)
  \/ \E f \in Running : confirm_verification_write(f)
  \/ \E u \in DiscordIds : handle_reverify_get(u)
  \/ \E f \in Running : handle_reverify_verify(f)
  \/ \E f \in Running : handle_reverify_write(f)
  \/ \E u \in DiscordIds, n \in ProductNames : handle_buy_get(u, n)
  \/ \E f \in Running : handle_buy_product(f)
  \/ \E f \in Running : handle_buy_owned(f)
  \/ \E f \in Running : handle_buy_existing(f)
  \/ \E f \in Running : handle_buy_write(f)
  \/ \E u \in DiscordIds, n \in ProductNames \cup {""},
        l \in GamepassLinks : handle_redeem_get(u, n, l)
  \/ \E f \in Running : handle_redeem_product(f)
  \/ \E f \in Running : handle_redeem_owned(f)
  \/ \E f \in Running : handle_redeem_existing(f)
  \/ \E f \in Running : handle_redeem_write(f)
  \/ \E u \in DiscordIds, n \in AddedNames, l \in AddedLinks :
       handle_add_product_get(u, n, l)
  \/ \E f \in Running : handle_add_product_gamepass(f)
  \/ \E f \in Running : handle_add_product_info(f)
  \/ \E f \in Running : handle_add_product_create(f)
  \/ \E op \in Commands, u \in DiscordIds : FaultAtFirstCall(op, u)
  \/ \E f \in Running : FaultAtCall(f)

\* Every command, with Storage calls that can raise.
SpecFault == InitFault /\ [][NextFault]_vars

(* ------------------------------ the task alone ------------------------ *)

\* The Roblox accounts of the three linked users.
LoopRobloxIds == {"101", "102", "103"}

\* Three linked users have asked for Gold and were given the link; a
\* fourth purchase is of a product that is gone.  No request is in progress and
\* none arrives: what happens is the task's doing.
InitLoop ==
  /\ verified_users =
       {[id |-> 1, discordId |-> "7001", robloxUsername |-> "Builder",
         robloxId |-> "101", verificationCode |-> "DISC-VFY-7Q2M",
         verified |-> TRUE, verifiedAt |-> 1],
        [id |-> 2, discordId |-> "7002", robloxUsername |-> "Crafter",
         robloxId |-> "102", verificationCode |-> "DISC-VFY-K4TP",
         verified |-> TRUE, verifiedAt |-> 1],
        [id |-> 3, discordId |-> "7003", robloxUsername |-> "Digger",
         robloxId |-> "103", verificationCode |-> "DISC-VFY-9XWB",
         verified |-> TRUE, verifiedAt |-> 1]}
  /\ products = Catalog
  /\ purchases =
       {[id |-> 1, discordId |-> "7001", robloxId |-> "101",
         productId |-> 1, status |-> "pending", purchasedAt |-> NoTime],
        [id |-> 2, discordId |-> "7002", robloxId |-> "102",
         productId |-> 1, status |-> "pending", purchasedAt |-> NoTime],
        [id |-> 3, discordId |-> "7003", robloxId |-> "103",
         productId |-> 1, status |-> "pending", purchasedAt |-> NoTime],
        [id |-> 4, discordId |-> "7001", robloxId |-> "101",
         productId |-> 2, status |-> "pending", purchasedAt |-> NoTime]}
  /\ profile = [r \in RobloxIds |-> {}]
  /\ owns = {}
  /\ now = 1
  /\ procs = EmptyBag
  /\ last = Idle
  /\ loop = LoopIdle
  /\ grants = << >>

NextLoop ==
  \/ check_pending_purchases_get
  \/ check_pending_purchases_product
  \/ check_pending_purchases_failed
  \/ check_pending_purchases_owned
  \/ check_pending_purchases_completed
  \/ check_pending_purchases_role
  \/ \E r \in LoopRobloxIds, g \in GamepassIds : BuyGamepass(r, g)

SpecLoop == InitLoop /\ [][NextLoop]_vars

\* user_owns_gamepass answers True to the task.
AnsweredOwned == check_pending_purchases_owned /\ loop'.pc = "completed"

\* tasks.loop(seconds=30) runs the task again and again and every statement
\* of a tick ends; Roblox does not fail on every request for ever.
FairLoop ==
  /\ WF_vars(check_pending_purchases_get)
  /\ WF_vars(check_pending_purchases_product)
  /\ WF_vars(check_pending_purchases_failed)
  /\ WF_vars(check_pending_purchases_owned)
  /\ WF_vars(check_pending_purchases_completed)
  /\ WF_vars(check_pending_purchases_role)
  /\ SF_vars(AnsweredOwned)

SpecLoopFair == SpecLoop /\ FairLoop

(* --------------------------- two Discord users ------------------------ *)

\* Two Discord users of the server.
LinkDiscordIds == {"7001", "7002"}

NextLinkTwo ==
  \/ \E u \in LinkDiscordIds : handle_verify_get(u)
  \/ \E f \in Running : handle_verify_write(f)
  \/ \E u \in LinkDiscordIds : confirm_verification_get(u, "Builder")
  \/ \E f \in Running : confirm_verification_user(f)
  \/ \E f \in Running : confirm_verification_inventory(f)
  \/ \E f \in Running : confirm_verification_code(f)
  \/ \E f \in Running : confirm_verification_write(f)
  \/ \E r \in RobloxIds, codes \in SUBSET Codes : EditProfile(r, codes)

\* Two Discord users who verify and confirm with the name Builder, and the
\* edits of Builder's profile.
SpecLinkTwo == Init /\ [][NextLinkTwo]_vars

(* ------------------------- the task and /reverify -------------------- *)

\* The Discord users with a pending purchase.
LoopDiscordIds == {"7001", "7002", "7003"}

NextLoopReverify ==
  \/ check_pending_purchases_get
  \/ check_pending_purchases_product
  \/ check_pending_purchases_failed
  \/ check_pending_purchases_owned
  \/ check_pending_purchases_completed
  \/ check_pending_purchases_role
  \/ \E u \in LoopDiscordIds : handle_reverify_get(u)
  \/ \E f \in Running : handle_reverify_write(f)
  \/ \E r \in LoopRobloxIds, g \in GamepassIds : BuyGamepass(r, g)

\* The task, with users who have a pending purchase calling /reverify.
SpecLoopReverify == InitLoop /\ [][NextLoopReverify]_vars

(* ------------------------- the task after a relink -------------------- *)

\* User 7001 asked for Gold while linked to Builder (101), then used
\* /reverify and confirmed as Crafter (102): the pending purchase still
\* records 101.  User 7003 is linked to Digger (103) and has asked for Gold
\* too; a third purchase is of a product that is gone.
InitRelinked ==
  /\ verified_users =
       {[id |-> 1, discordId |-> "7001", robloxUsername |-> "Crafter",
         robloxId |-> "102", verificationCode |-> "DISC-VFY-0A1B",
         verified |-> TRUE, verifiedAt |-> 1],
        [id |-> 2, discordId |-> "7003", robloxUsername |-> "Digger",
         robloxId |-> "103", verificationCode |-> "DISC-VFY-9XWB",
         verified |-> TRUE, verifiedAt |-> 1]}
  /\ products = Catalog
  /\ purchases =
       {[id |-> 1, discordId |-> "7001", robloxId |-> "101",
         productId |-> 1, status |-> "pending", purchasedAt |-> NoTime],
        [id |-> 2, discordId |-> "7003", robloxId |-> "103",
         productId |-> 1, status |-> "pending", purchasedAt |-> NoTime],
        [id |-> 3, discordId |-> "7003", robloxId |-> "103",
         productId |-> 2, status |-> "pending", purchasedAt |-> NoTime]}
  /\ profile = [r \in RobloxIds |-> {}]
  /\ owns = {}
  /\ now = 1
  /\ procs = EmptyBag
  /\ last = Idle
  /\ loop = LoopIdle
  /\ grants = << >>

\* The task and purchases on Roblox, after user 7001 has relinked.
SpecRelinked == InitRelinked /\ [][NextLoop]_vars

(* ------------------------------ properties ---------------------------- *)

\* The stored purchase with this id.
PurchaseRow(id) == CHOOSE r \in purchases : r.id = id

\* The stored verification record with this id.
VerifiedUserRow(id) == CHOOSE r \in verified_users : r.id = id

\* C1: in every reachable state there is at most one purchase per
\* (discordId, productId) pair, also when /buy and /redeem calls for the
\* pair interleave.
C1_OnePurchasePerPair ==
  \A a, b \in purchases :
    a.discordId = b.discordId /\ a.productId = b.productId => a = b

\* The background task has written 'completed' for this purchase: it has
\* given the role for it or is about to.
TaskCompleted(id) ==
  \/ Granted(id) >= 1
  \/ loop.pc = "role" /\ Current.id = id

\* C2: when /redeem and a tick of check_pending_purchases act on the same
\* pending purchase, the move to completed is written once: /redeem, having
\* read the purchase as pending, writes nothing when the task has completed
\* it in the meantime.
C2_CompletedWrittenOnce ==
  [][\A f \in Running :
       /\ handle_redeem_write(f)
       /\ f.existing # None
       /\ TaskCompleted(f.existing.id)
       => PurchaseRow(f.existing.id).status # "completed"]_vars

\* C3: every purchase that became completed, through /buy, /redeem or the
\* background task, has had its role notification, or the task that
\* completed it is about to make it.
C3_CompletedNotified ==
  \A r \in purchases :
    r.status = "completed"
      => \/ Granted(r.id) >= 1
         \/ loop.pc = "role" /\ Current.id = r.id

\* C4: a completed purchase stays completed in every step of /buy, /redeem
\* and the background task.
C4_CompletedStays ==
  [][\A r \in purchases :
       r.status = "completed"
         => \E q \in purchases' : q.id = r.id /\ q.status = "completed"]_vars

\* C5: failed is terminal: a failed purchase stays failed in every step of
\* /buy, /redeem and the background task.
C5_FailedStays ==
  [][\A r \in purchases :
       r.status = "failed"
         => \E q \in purchases' : q.id = r.id /\ q.status = "failed"]_vars

\* C6: in every reachable state purchasedAt is set exactly for the
\* completed purchases.
C6_PurchasedAtIffCompleted ==
  \A r \in purchases : (r.purchasedAt # NoTime) <=> (r.status = "completed")

\* C7: in every reachable state there is at most one verification record
\* per discordId, also when /verify and /reverify calls for an account
\* without a record interleave.
C7_OneRecordPerUser ==
  \A a, b \in verified_users : a.discordId = b.discordId => a = b

\* C7, its case: two calls found no record, one created it and the other's
\* create was refused.
C7_SecondCreateRefused ==
  /\ last.op \in {"verify", "reverify"}
  /\ last.result.kind = "InternalError"
  /\ \E r \in verified_users : r.discordId = last.user

\* C8: in every reachable state robloxId and robloxUsername of a record are
\* non-empty exactly when the record is verified, also when /verify,
\* /verify-confirm and /reverify for the account interleave.
C8_RobloxIdentityIffVerified ==
  \A r \in verified_users :
    (r.robloxId # "" /\ r.robloxUsername # "") <=> r.verified

\* C9: only the latest code completes a link: when confirm_verification sets
\* a record verified, the code it found on the profile is the code stored in
\* the record at that moment.
C9_LatestCodeOnly ==
  [][\A f \in Running :
       confirm_verification_write(f)
         => VerifiedUserRow(f.verification.id).verificationCode
              = f.verification.verificationCode]_vars

\* The account has a verified record.
IsLinked(u) == \E r \in verified_users : r.discordId = u /\ r.verified

\* C10: handle_verify for an account with a verified record returns
\* AlreadyLinked at once and leaves the record as it is, whether called for
\* /verify or from handle_reverify.
C10_AlreadyLinkedUnchanged ==
  [][/\ \A u \in DiscordIds :
          handle_verify_get(u) /\ IsLinked(u)
            => /\ last'.result.kind = "AlreadyLinked"
               /\ ~last'.result.success
               /\ verified_users' = verified_users
               /\ procs' = procs
     /\ \A f \in Running :
          handle_reverify_verify(f) /\ IsLinked(f.user)
            => /\ last'.result.kind = "AlreadyLinked"
               /\ ~last'.result.success
               /\ verified_users' = verified_users]_vars

\* C10, its case: /verify was refused for a linked account.
C10_VerifyRefused ==
  /\ last.op = "verify"
  /\ last.result.kind = "AlreadyLinked"
  /\ IsLinked(last.user)

\* The results with which confirm_verification refuses.
ConfirmRefusals ==
  {"NotStarted", "ExternalAccountNotFound", "InventoryPrivate",
   "CodeNotFound"}

\* C11: a confirm_verification call that fails returns one of NotStarted,
\* ExternalAccountNotFound, InventoryPrivate, CodeNotFound, and neither the
\* step in which it returns nor any of its earlier steps changes the
\* verification records: no record is created, and the record keeps its
\* state and its code.
C11_FailedConfirmUnchanged ==
  [][/\ last'.op = "confirm" /\ ~last'.result.success
          => /\ last'.result.kind \in ConfirmRefusals
             /\ verified_users' = verified_users
     /\ \A f \in Running :
          \/ confirm_verification_user(f)
          \/ confirm_verification_inventory(f)
          \/ confirm_verification_code(f)
          => verified_users' = verified_users]_vars

\* C11, its case: a confirmation was refused for want of the code on the
\* profile, and the record is still pending with its code.
C11_CodeNotFoundKept ==
  /\ last.op = "confirm"
  /\ last.result.kind = "CodeNotFound"
  /\ \E r \in verified_users :
       r.discordId = last.user /\ ~r.verified /\ r.verificationCode \in Codes

\* The stored verification record with this id, after the step.
VerifiedUserRowAfter(id) == CHOOSE r \in verified_users' : r.id = id

PendingWith(r, code) ==
  /\ r.verificationCode = code
  /\ ~r.verified
  /\ r.robloxId = "" /\ r.robloxUsername = ""
  /\ r.verifiedAt = NoTime

\* The account has a record, verified or not.
HasRecord(u) == \E r \in verified_users : r.discordId = u

C14_OnlyReverifyUnlinks ==
  [][\A r \in verified_users :
       r.verified /\ ~VerifiedUserRowAfter(r.id).verified
         => \E f \in Running :
              /\ f.op = "reverify"
              /\ handle_reverify_write(f) \/ handle_verify_write(f)]_vars

\* C15: /buy and /redeem write a purchase only for a verified account: a
\* call that finds no record or an unverified one returns NotLinked and
\* writes nothing, and no purchase is written for an account that a
\* concurrent /reverify has made unverified.
C15_WritesOnlyWhenLinked ==
  [][/\ last'.op \in {"buy", "redeem"} /\ last'.result.kind = "NotLinked"
          => purchases' = purchases
     /\ \A f \in Running :
          handle_buy_write(f) \/ handle_redeem_write(f)
            => IsLinked(f.user)]_vars

\* The gamepass of a product of the catalog.
GamepassOf(product_id) ==
  (CHOOSE p \in Catalog : p.id = product_id).gamepassId

\* The purchase was not completed before the step and is completed after it.
BecomesCompleted(r) ==
  /\ r \in purchases'
  /\ r.status = "completed"
  /\ ~\E q \in purchases : q.id = r.id /\ q.status = "completed"

PurchaseRowAfter(id) == CHOOSE r \in purchases' : r.id = id

\* The id of the purchase a /buy call writes: the one it read, or a new one.
BuyWrittenId(f) ==
  IF f.existing # None THEN f.existing.id ELSE NextId(purchases)

\* The step writes no purchase but the one with this id.
OnlyWrites(id) ==
  /\ \A r \in purchases : r.id # id => r \in purchases'
  /\ \A r \in purchases' : r.id # id => r \in purchases

\* C17: /buy of a verified user for a product whose gamepass
\* user_owns_gamepass reports owned makes one write, which leaves the user's
\* purchase of the product completed with purchasedAt set to the time of the
\* call (the purchase it read, or a new one), and returns 'Your purchase
\* has been processed' without a gamepass link; the call stores no pending
\* purchase.
C17_OwnedCompletes ==
  [][\A f \in Running :
       handle_buy_write(f) /\ f.owned
         => /\ \E r \in purchases' :
                 /\ r.id = BuyWrittenId(f)
                 /\ r.discordId = f.user
                 /\ r.productId = f.product.id
                 /\ r.status = "completed"
                 /\ r.purchasedAt = now
                 /\ r.purchasedAt # NoTime
            /\ OnlyWrites(BuyWrittenId(f))
            /\ last'.result = CommandResult(TRUE, "Processed", NoData)]_vars

\* C17, its case: /buy has just returned 'processed' and the user's purchase
\* of the product is completed.
C17_Processed ==
  /\ last.op = "buy"
  /\ last.result.kind = "Processed"
  /\ \E r \in purchases :
       /\ r.discordId = last.user
       /\ r.status = "completed"
       /\ r.purchasedAt # NoTime

\* C18: /buy of a verified user for a product, when user_owns_gamepass
\* reports not owned and the call found no purchase of the product by the
\* user, stores exactly one new purchase, pending and with purchasedAt
\* unset, and returns the link to the product's gamepass.
C18_NotOwnedPending ==
  [][\A f \in Running :
       handle_buy_write(f) /\ ~f.owned /\ f.existing = None
         => /\ purchases' = purchases \cup
                 {[id |-> NextId(purchases),
                   discordId |-> f.user,
                   robloxId |-> f.verification.robloxId,
                   productId |-> f.product.id,
                   status |-> "pending",
                   purchasedAt |-> NoTime]}
            /\ Cardinality(purchases') = Cardinality(purchases) + 1
            /\ last'.result =
                 CommandResult(TRUE, "PurchaseLink",
                               GamepassLink(GamepassOf(f.product.id)))]_vars

\* C18, its case: the first /buy has just returned the link to gamepass 9001
\* and its pending purchase is the only one.
C18_FirstPending ==
  /\ last.op = "buy"
  /\ last.result.kind = "PurchaseLink"
  /\ last.result.data = GamepassLink("9001")
  /\ Cardinality(purchases) = 1
  /\ \A r \in purchases : r.status = "pending" /\ r.purchasedAt = NoTime

\* The /buy call found a purchase of the product by the user, was told the
\* gamepass is not owned, and the purchase is still pending.
RepeatsPending(f) ==
  /\ f.pc = "buy_write"
  /\ ~f.owned
  /\ f.existing # None
  /\ PurchaseRow(f.existing.id).status = "pending"

\* C19: /buy repeated for a purchase that is pending, user_owns_gamepass
\* still reporting not owned, leaves the purchases table as it was (the
\* purchase unchanged, none created) and returns the link to the product's
\* gamepass, the link the first call returned.
C19_RepeatUnchanged ==
  [][\A f \in Running :
       RepeatsPending(f) /\ handle_buy_write(f)
         => /\ purchases' = purchases
            /\ last'.result =
                 CommandResult(TRUE, "PurchaseLink",
                               GamepassLink(GamepassOf(f.product.id)))]_vars

\* C19, its case: a /buy call has read the pending purchase an earlier call
\* created, and stands before its write.
C19_Repeating ==
  \E f \in Running :
    /\ RepeatsPending(f)
    /\ f.op = "buy"
    /\ PurchaseRow(f.existing.id).discordId = f.user
    /\ PurchaseRow(f.existing.id).productId = f.product.id

\* The /buy call reads a completed purchase of the product by the user.
ReadsCompleted(f) ==
  /\ f.pc = "buy_existing"
  /\ LET existing_purchase == get_purchase_by_discord_id_and_product_id(
                                f.user, f.product.id) IN
       existing_purchase # None /\ existing_purchase.status = "completed"

\* C20: /buy for a purchase that is completed changes no purchase and
\* returns 'You already own this product', without a gamepass link,
\* whatever user_owns_gamepass answered.
C20_CompletedNoOp ==
  [][\A f \in Running :
       ReadsCompleted(f) /\ handle_buy_existing(f)
         => /\ purchases' = purchases
            /\ last'.result = CommandResult(TRUE, "AlreadyOwned", NoData)]_vars

\* The /redeem call, told that the gamepass is owned, reads a completed
\* purchase of the product by the user.
RedeemsCompleted(f) ==
  /\ f.pc = "redeem_existing"
  /\ LET existing_purchase == get_purchase_by_discord_id_and_product_id(
                                f.user, f.product.id) IN
       existing_purchase # None /\ existing_purchase.status = "completed"

\* C21: /redeem of a verified user who owns the gamepass, for a purchase
\* that is completed, returns success ('You have already redeemed this
\* product'), changes no purchase (purchasedAt is not written again) and
\* gives no role.
C21_RedeemCompletedNoOp ==
  [][\A f \in Running :
       RedeemsCompleted(f) /\ handle_redeem_existing(f)
         => /\ purchases' = purchases
            /\ grants' = grants
            /\ now' = now
            /\ last'.result = CommandResult(TRUE, "AlreadyRedeemed", NoData)
            /\ last'.result.success]_vars

\* C21, its case: /redeem has just returned 'already redeemed' for a
\* completed purchase of a user who owns the gamepass.
C21_AlreadyRedeemed ==
  /\ last.op = "redeem"
  /\ last.result.kind = "AlreadyRedeemed"
  /\ \E r \in purchases :
       /\ r.discordId = last.user
       /\ r.status = "completed"
       /\ <<r.robloxId, GamepassOf(r.productId)>> \in owns

\* No two products have the same name and no two the same gamepass.
UniqueProducts ==
  \A p, q \in products :
    p.name = q.name \/ p.gamepassId = q.gamepassId => p = q

\* The name or the gamepass of the /add call is stored already.
Collides(f) ==
  \E r \in products : r.name = f.arg \/ r.gamepassId = f.gamepass_id

\* C22: in every reachable state no two products have the same name and no
\* two the same gamepass, also when /add calls with colliding arguments
\* interleave; a call whose name or gamepass is stored already when it
\* reaches create_product fails and inserts nothing.
C22_ProductsUnique ==
  /\ []UniqueProducts
  /\ [][\A f \in Running :
          handle_add_product_create(f) /\ Collides(f)
            => products' = products /\ ~last'.result.success]_vars

\* C22, its case: two /add calls with the same gamepass interleaved; the
\* second has just failed at create_product, and one product is stored.
C22_SecondAddRefused ==
  /\ last.op = "add"
  /\ last.result.kind = "InternalError"
  /\ Cardinality(products) = 1

\* A product of this name for this gamepass is stored.
Defined(product_name, gamepass_id) ==
  \E r \in products : r.name = product_name /\ r.gamepassId = gamepass_id

\* C23: /add called with the name and the gamepass of a stored product
\* fails with 'A product for this gamepass already exists'.
C23_SecondAddDuplicateAsset ==
  [][\A u \in DiscordIds, n \in AddedNames, g \in AddedGamepassIds :
       Defined(n, g) /\ handle_add_product_get(u, n, GamepassLink(g))
         => /\ ~last'.result.success
            /\ last'.result.kind = "DuplicateAsset"]_vars

\* The purchase was not failed before the step and is failed after it.
BecomesFailed(r) ==
  /\ r \in purchases'
  /\ r.status = "failed"
  /\ ~\E q \in purchases : q.id = r.id /\ q.status = "failed"

\* C24: the task sets a purchase of its list to failed exactly when it finds
\* no product for it: a lookup that finds none is followed by the write of
\* 'failed', a purchase becomes failed only by that write and only while
\* its product is missing, and an answer 'not owned' changes no purchase,
\* however often it is given.
C24_FailedIffProductMissing ==
  [][/\ check_pending_purchases_product
          => (loop'.pc = "failed") = (get_product(Current.productId) = None)
     /\ check_pending_purchases_failed
          => PurchaseRowAfter(Current.id).status = "failed"
     /\ \A r \in purchases' :
          BecomesFailed(r)
            => /\ check_pending_purchases_failed
               /\ r.id = Current.id
               /\ get_product(r.productId) = None
     /\ check_pending_purchases_owned => purchases' = purchases]_vars

\* C24, its case: the task has set a purchase to failed whose product is
\* missing, and its tick is over.
C24_FailedForMissingProduct ==
  \E r \in purchases :
    /\ r.status = "failed"
    /\ get_product(r.productId) = None
    /\ loop.pc = "idle"

\* The purchase is pending, its product is stored and its Roblox account
\* owns the product's gamepass.
PendingAndOwned(id) ==
  \E r \in purchases :
    /\ r.id = id
    /\ r.status = "pending"
    /\ get_product(r.productId) # None
    /\ <<r.robloxId, get_product(r.productId).gamepassId>> \in owns

\* The purchase is completed, purchasedAt is set and the role was given
\* once for it.
CompletedAndGranted(id) ==
  \E r \in purchases :
    /\ r.id = id
    /\ r.status = "completed"
    /\ r.purchasedAt # NoTime
    /\ Granted(id) = 1

\* C25: when the task keeps running and no request is made, a pending
\* purchase whose product is stored and whose gamepass Roblox reports as
\* owned from some point on is eventually completed, with purchasedAt set
\* and the role given once for it, never twice.
C25_PendingEventuallyCompleted ==
  /\ \A id \in 1 .. 4 : PendingAndOwned(id) ~> CompletedAndGranted(id)
  /\ [](\A id \in 1 .. 4 : Granted(id) <= 1)

\* C25, its case: the gamepass was bought after the link was given, and the
\* task has completed the purchase and given the role.
C25_CompletedAfterPurchase ==
  /\ CompletedAndGranted(2)
  /\ <<"102", "9001">> \in owns
  /\ procs = EmptyBag

\* The task's ownership request for the purchase it is at comes back with
\* this response, and the task goes on accordingly.
TaskAnswered(response) ==
  /\ check_pending_purchases_owned
  /\ loop' = IF OwnsGamepass(response, Current.robloxId,
                              loop.product.gamepassId)
              THEN [loop EXCEPT !.pc = "completed"]
              ELSE NextPurchase

\* The purchase is pending and its product is stored.
PendingWithProduct(id) ==
  \E r \in purchases :
    r.id = id /\ r.status = "pending" /\ get_product(r.productId) # None

\* The task is at its ownership request for the purchase.
TaskAsks(id) == loop.pc = "owned" /\ Current.id = id

\* C26: when the task's ownership request for a pending purchase is answered
\* 403 or raises, the task goes to its next purchase and leaves the
\* purchases table and the roles as they were (the purchase stays pending,
\* purchasedAt unset); and the task, running on, asks again for every
\* purchase for as long as it is pending.
C26_ErrorLeavesPending ==
  /\ [][\A response \in {"403", "raised"} :
          TaskAnswered(response)
            => /\ loop' = NextPurchase
               /\ purchases' = purchases
               /\ grants' = grants
               /\ now' = now]_vars
  /\ \A id \in 1 .. 4 :
       PendingWithProduct(id) ~> (TaskAsks(id) \/ ~PendingWithProduct(id))

\* C26, its case: Builder owns the gamepass and Builder's purchase is still
\* pending with purchasedAt unset after a tick that asked for it and, later
\* in the list, completed Crafter's purchase.
C26_StillPendingAfterTick ==
  /\ loop.pc = "idle"
  /\ <<"101", "9001">> \in owns
  /\ \E r \in purchases :
       r.id = 1 /\ r.status = "pending" /\ r.purchasedAt = NoTime
  /\ Granted(1) = 0
  /\ CompletedAndGranted(2)

\* The Roblox account of the /buy call owns the product's gamepass, and
\* the call was told otherwise: its ownership request failed.
BuyRequestFailed(f) ==
  /\ f.pc = "buy_write"
  /\ ~f.owned
  /\ <<f.verification.robloxId, f.product.gamepassId>> \in owns

\* C27: a /buy or /redeem call whose ownership request fails (403, another
\* status, an exception) leaves the purchases table as it was: /buy creates
\* no purchase and changes the status of none.
C27_FailedRequestWritesNothing ==
  [][/\ \A f \in Running :
          BuyRequestFailed(f) /\ handle_buy_write(f) => purchases' = purchases
     /\ last'.op = "redeem" /\ last'.result.kind = "NotOwned"
          => purchases' = purchases]_vars

\* Every linked Roblox account owns the gamepass of every product: an
\* answer False of user_owns_gamepass is then a failed request.
AllOwned ==
  \A r \in verified_users, p \in Catalog :
    <<r.robloxId, p.gamepassId>> \in owns

\* C28: a /redeem or /buy call whose ownership request fails does not
\* return what it returns for a gamepass that is not owned: /redeem not
\* 'You do not own this gamepass', /buy not the purchase link.
C28_FailureNotReportedAsNotOwned ==
  AllOwned
    => /\ ~(last.op = "redeem" /\ last.result.kind = "NotOwned")
       /\ ~(last.op = "buy" /\ last.result.kind = "PurchaseLink")

\* C29: the role block of the task, whether the role is given or the guild,
\* the role or the member is not found or a call raises, changes no purchase
\* (the purchase stays completed with purchasedAt set), and the task goes
\* on with the remaining purchases of its list.
C29_RoleFailureKeepsCompletion ==
  [][check_pending_purchases_role
       => /\ purchases' = purchases
          /\ PurchaseRowAfter(Current.id).status = "completed"
          /\ PurchaseRowAfter(Current.id).purchasedAt # NoTime
          /\ loop' = NextPurchase
          /\ Len(loop.pending) > 1
               => loop'.pc = "product" /\ loop'.pending = Tail(loop.pending)]_vars

\* C29, its case: the task has completed Builder's purchase, is past the
\* role block and stands at the next purchase of its list.
C29_TaskGoesOn ==
  /\ loop.pc = "product"
  /\ Current.id = 2
  /\ Granted(1) = 1
  /\ \E r \in purchases :
       r.id = 1 /\ r.status = "completed" /\ r.purchasedAt # NoTime

\* The next statement of the handler the request is in, when nothing raises.
HandlerStep(f) ==
  \/ handle_verify_write(f)
  \/ confirm_verification_user(f)
  \/ confirm_verification_inventory(f)
  \/ confirm_verification_code(f)
  \/ confirm_verification_write(f)
  \/ handle_reverify_verify(f)
  \/ handle_reverify_write(f)
  \/ handle_buy_product(f)
  \/ handle_buy_owned(f)
  \/ handle_buy_existing(f)
  \/ handle_buy_write(f)
  \/ handle_redeem_product(f)
  \/ handle_redeem_owned(f)
  \/ handle_redeem_existing(f)
  \/ handle_redeem_write(f)
  \/ handle_add_product_gamepass(f)
  \/ handle_add_product_info(f)
  \/ handle_add_product_create(f)

\* C31: every call of /verify, confirm, /reverify, /buy, /redeem or /add
\* that has returned, also one in which a Storage call raised, has returned
\* a CommandResult with a success flag and a message; and no call in
\* progress is stuck: its handler has a next statement to run.
C31_AlwaysAResult ==
  /\ last.op # ""
       => /\ last.op \in Commands
          /\ last.pc = "idle"
          /\ last.result.success \in BOOLEAN
          /\ last.result.kind # ""
  /\ \A f \in Running : ENABLED HandlerStep(f)

\* C31, its case: a Storage call of /buy has raised while another request
\* was in progress, and /buy has returned its failure message.
C31_FaultReturned ==
  /\ last.op = "buy"
  /\ last.result = CommandResult(FALSE, "InternalError", NoData)
  /\ procs # EmptyBag

\* C32: every failure a command returns carries an error code in its data
\* (the data of a failure is not empty).
C32_FailureCarriesCode ==
  last.op # "" /\ ~last.result.success => last.result.data # NoData

\* The Roblox account the Discord user is linked to now.
LinkedRobloxId(discord_id) ==
  get_verified_user_by_discord_id(discord_id).robloxId

\* C33: the task asks Roblox about the account the purchase's Discord user
\* is linked to at the time of the tick: it is told 'owned' only when that
\* account owns the gamepass, also after the user has relinked.
C33_TaskAsksLinkedAccount ==
  [][check_pending_purchases_owned /\ loop'.pc = "completed"
       => <<LinkedRobloxId(Current.discordId), loop.product.gamepassId>>
            \in owns]_vars

\* A step of the task other than the return of its user_owns_gamepass call.
TaskOtherStep ==
  \/ check_pending_purchases_get
  \/ check_pending_purchases_product
  \/ check_pending_purchases_failed
  \/ check_pending_purchases_completed
  \/ check_pending_purchases_role

\* C34: while the user_owns_gamepass call for one purchase has not returned
\* and other purchases of the tick's list wait, the task can go on to
\* another purchase: it has a step other than the return of that call.
C34_CallDoesNotBlockTick ==
  loop.pc = "owned" /\ Len(loop.pending) > 1 => ENABLED TaskOtherStep

\* The stored status of a purchase ("" when the row is gone).
StoredStatus(id) ==
  IF \E r \in purchases : r.id = id
  THEN (CHOOSE r \in purchases : r.id = id).status
  ELSE ""

\* C35: the task gives the role for a purchase only while the stored
\* purchase is completed: no step of a request changes its status between
\* the task's completion write and the role step.
C35_RoleOnlyWhileCompleted ==
  [][check_pending_purchases_role
       => StoredStatus(Current.id) = "completed"]_vars

\* C36: the task completes a purchase, and gives the role for it, only
\* while the purchase's Discord user is verified: after /reverify the
\* user's pending purchases are not completed.
C36_CompletedOnlyWhileLinked ==
  [][check_pending_purchases_completed \/ check_pending_purchases_role
       => IsLinked(Current.discordId)]_vars

\* C37: confirm_verification for an account whose record is verified leaves
\* the record's robloxId, robloxUsername and verifiedAt as they are.
C37_ConfirmKeepsLinkedIdentity ==
  [][\A f \in Running :
       (/\ f.pc = "confirm_write"
        /\ VerifiedUserRow(f.verification.id).verified
        /\ confirm_verification_write(f))
         => LET before == VerifiedUserRow(f.verification.id)
                after == VerifiedUserRow(f.verification.id)' IN
              /\ after.robloxId = before.robloxId
              /\ after.robloxUsername = before.robloxUsername
              /\ after.verifiedAt = before.verifiedAt]_vars

\* C38: in every reachable state no two records of different Discord users
\* are verified with the same robloxId.
C38_RobloxIdLinkedOnce ==
  \A a, b \in verified_users :
    a.verified /\ b.verified /\ a.robloxId = b.robloxId
      => a.discordId = b.discordId

\* The commands of the link registry.
LinkCommands == {"verify", "confirm", "reverify"}

\* A step of /verify, confirm_verification or /reverify, a raising one
\* included.
LinkCommandStep ==
  \/ \E u \in DiscordIds : handle_verify_get(u)
  \/ \E u \in DiscordIds, n \in UsernameClaims :
       confirm_verification_get(u, n)
  \/ \E u \in DiscordIds : handle_reverify_get(u)
  \/ \E f \in Running : handle_verify_write(f)
  \/ \E f \in Running : confirm_verification_user(f)
  \/ \E f \in Running : confirm_verification_inventory(f)
  \/ \E f \in Running : confirm_verification_code(f)
  \/ \E f \in Running : confirm_verification_write(f)
  \/ \E f \in Running : handle_reverify_verify(f)
  \/ \E f \in Running : handle_reverify_write(f)
  \/ \E op \in LinkCommands, u \in DiscordIds : FaultAtFirstCall(op, u)
  \/ \E f \in Running : f.op \in LinkCommands /\ FaultAtCall(f)

\* C39: no step of /verify, confirm_verification or /reverify creates,
\* changes or deletes a purchase: after /reverify each purchase of the user
\* has the status, purchasedAt and robloxId it had.
C39_LinkCommandsKeepPurchases ==
  [][LinkCommandStep => purchases' = purchases]_vars

\* C39, its case: /reverify has returned a new code to a user who has a
\* completed purchase, recorded with the Roblox id the user had.
C39_ReverifiedWithPurchase ==
  /\ last.op = "reverify"
  /\ last.result.success
  /\ \E r \in purchases :
       /\ r.discordId = last.user
       /\ r.status = "completed"
       /\ r.robloxId = "101"

====
